---- MODULE Spec2Model ----
(***************************************************************************)
(* Model of src/extractors.rs of aode-relay: the admin guard (Admin,       *)
(* AdminConfig), its header codec (XApiToken) and its error taxonomy       *)
(* (Error, ErrorKind), together with the library calls the file makes      *)
(* (bcrypt::hash, bcrypt::verify, HeaderMap::get, from_one_raw_str,        *)
(* HeaderValue::from_str, HeaderValue::to_str).                            *)
(*                                                                         *)
(* Text.  A Rust string is a sequence of characters and a header value a   *)
(* sequence of bytes.  Characters and bytes are named by short TLA+        *)
(* strings; AsciiCode gives the numeric value of the single bytes.  Two    *)
(* further kinds of symbol stand for the fixed-width radix-64 blocks of a  *)
(* bcrypt hash string: a salt block (22 characters) and a digest block     *)
(* (31 characters).  A digest block is the symbolic image of the triple    *)
(* (password, cost, salt): bcrypt is taken to be collision free, so two    *)
(* digest blocks are equal exactly when the triples are.                   *)
(***************************************************************************)
EXTENDS Integers, Sequences, FiniteSets, TLC

\* ------------------------------------------------------------------ bounds

\* Header lines the requests of one run carry altogether.
MaxHeaders == 2

\* Requests that arrive in one run.
MaxRequests == 2

\* Characters of a token string handed to the codec.
MaxLen == 2

\* ------------------------------------------------------------ result types

\* A Result: Ok(val), or Err(err) where the error may wrap a cause (#[source])
\* that holds a text.
Ok(v) == [ok |-> TRUE, val |-> v, err |-> "none", cause |-> "none", text |-> <<>>]

Err(e, dflt) == [ok |-> FALSE, val |-> dflt, err |-> e, cause |-> "none", text |-> <<>>]

\* An error variant that holds a text, such as BcryptError::InvalidHash(String).
ErrText(e, dflt, text) ==
  [ok |-> FALSE, val |-> dflt, err |-> e, cause |-> "none", text |-> text]

\* result.map_err(wrap): the error `inner` becomes the #[source] of `kind`.
MapErr(kind, dflt, inner) ==
  [ok |-> FALSE, val |-> dflt, err |-> kind, cause |-> inner.err, text |-> inner.text]

Some(v) == [some |-> TRUE, val |-> v]

None == [some |-> FALSE, val |-> <<>>]

\* -------------------------------------------------------------------- text

\* Numeric value of the single-byte symbols.  HT, LF and DEL are the control
\* bytes 9, 10 and 127; xC3 xA9 is the UTF-8 encoding of e_acute (U+00E9);
\* xFF is a byte that occurs in no UTF-8 text.
AsciiCode ==
  ("a" :> 97) @@ ("b" :> 98) @@ ("x" :> 120) @@ ("y" :> 121) @@ ("$" :> 36)
  @@ ("0" :> 48) @@ ("1" :> 49) @@ ("2" :> 50) @@ ("3" :> 51) @@ ("4" :> 52)
  @@ ("5" :> 53) @@ ("6" :> 54) @@ ("7" :> 55) @@ ("8" :> 56) @@ ("9" :> 57)
  @@ (" " :> 32) @@ ("HT" :> 9) @@ ("LF" :> 10) @@ ("DEL" :> 127)
  @@ ("xC3" :> 195) @@ ("xA9" :> 169) @@ ("xFF" :> 255)

\* A symbol that is not a single byte is a block of radix-64 characters.
IsBlock(sym) == sym \notin DOMAIN AsciiCode /\ sym # "e_acute"

\* str::as_bytes of one character.
utf8_char(c) == IF c = "e_acute" THEN <<"xC3", "xA9">> ELSE <<c>>

RECURSIVE as_bytes(_)
as_bytes(s) == IF s = <<>> THEN <<>> ELSE utf8_char(Head(s)) \o as_bytes(Tail(s))

\* http::header::value::is_valid: the bytes HeaderValue::from_str accepts.
is_valid(sym) ==
  \/ IsBlock(sym)
  \/ /\ sym \in DOMAIN AsciiCode
     /\ (AsciiCode[sym] >= 32 /\ AsciiCode[sym] # 127) \/ AsciiCode[sym] = 9

\* http::header::value::is_visible_ascii: the bytes HeaderValue::to_str accepts.
is_visible_ascii(sym) ==
  \/ IsBlock(sym)
  \/ /\ sym \in DOMAIN AsciiCode
     /\ (AsciiCode[sym] >= 32 /\ AsciiCode[sym] < 127) \/ AsciiCode[sym] = 9

\* HeaderValue::from_str(&str): the bytes of the string, if all are valid.
HeaderValue_from_str(s) ==
  LET bytes == as_bytes(s)
  IN  IF \A i \in 1..Len(bytes) : is_valid(bytes[i])
      THEN Ok(bytes)
      ELSE Err("InvalidHeaderValue", <<>>)

\* HeaderValue::to_str(&self): the text of the bytes, if all are visible ASCII
\* (a visible ASCII byte is the character of the same code).
HeaderValue_to_str(v) ==
  IF \A i \in 1..Len(v) : is_visible_ascii(v[i])
  THEN Ok(v)
  ELSE Err("ToStrError", <<>>)

\* ------------------------------------------------------------ header codec

\* impl Header for XApiToken: fn name().
XApiToken_name == "x-api-token"

\* HeaderMap::get(name): the first value stored under the name, if any.  A
\* request's headers are the sequence of its header lines, names lower-cased.
RECURSIVE HeaderMap_get(_, _)
HeaderMap_get(headers, name) ==
  IF headers = <<>> THEN None
  ELSE IF Head(headers).name = name THEN Some(Head(headers).value)
  ELSE HeaderMap_get(Tail(headers), name)

\* Variant of XApiToken_from_str: the text is trimmed of leading spaces.
RECURSIVE XApiToken_from_str_Trimmed(_)
XApiToken_from_str_Trimmed(s) ==
  IF s # <<>> /\ Head(s) = " " THEN XApiToken_from_str_Trimmed(Tail(s)) ELSE Ok(s)

\* impl FromStr for XApiToken: infallible, keeps the text as it is.
XApiToken_from_str(s) == Ok(s)

\* Variant of from_one_raw_str: an empty line is parsed like any other.
from_one_raw_str_AllowsEmpty(val) ==
  IF ~val.some THEN Err("ParseError::Header", <<>>)
  ELSE LET line == HeaderValue_to_str(val.val)
       IN  IF ~line.ok THEN Err("ParseError::Header", <<>>)
           ELSE XApiToken_from_str(line.val)

\* actix_web::http::header::from_one_raw_str: the value must be present, be
\* visible ASCII and be non-empty; every failure is ParseError::Header.
from_one_raw_str(val) ==
  IF ~val.some THEN Err("ParseError::Header", <<>>)
  ELSE LET line == HeaderValue_to_str(val.val)
       IN  IF ~line.ok THEN Err("ParseError::Header", <<>>)
           ELSE IF line.val # <<>>
           THEN (IF XApiToken_from_str(line.val).ok
                 THEN XApiToken_from_str(line.val)
                 ELSE Err("ParseError::Header", <<>>))
           ELSE Err("ParseError::Header", <<>>)

\* Variant of XApiToken_parse: the bytes of the first line are taken as they
\* are, and a missing line counts as an empty token.
XApiToken_parse_Lenient(headers) == Ok(HeaderMap_get(headers, XApiToken_name).val)

\* impl Header for XApiToken: fn parse(msg).
XApiToken_parse(headers) == from_one_raw_str(HeaderMap_get(headers, XApiToken_name))

\* impl TryIntoHeaderValue for XApiToken: fn try_into_value(self).
XApiToken_try_into_value(token) == HeaderValue_from_str(token)

\* ------------------------------------------------------------------ bcrypt

\* bcrypt::DEFAULT_COST.
DEFAULT_COST == 12

\* The salt blocks: radix-64 encodings of 16 random bytes.
SaltBlocks == {"s1", "s2"}

\* A 31-character block that is the digest of no password.
JunkDigest == "d0"

RECURSIVE Flat(_)
Flat(s) == IF s = <<>> THEN "" ELSE Head(s) \o "." \o Flat(Tail(s))

\* The digest block bcrypt computes from the bytes of the password, the cost
\* and the salt (collision free: the block names its triple).
Digest(password, cost, salt) ==
  "{" \o Flat(password) \o "," \o ToString(cost) \o "," \o salt \o "}"

IsDigestBlock(sym) == IsBlock(sym) /\ sym \notin SaltBlocks

DigitChar == <<"0", "1", "2", "3", "4", "5", "6", "7", "8", "9">>

IsDigit(c) == \E i \in 1..Len(DigitChar) : DigitChar[i] = c

\* str::parse::<u32> of a run of decimal digits.
RECURSIVE parse_u32(_, _)
parse_u32(s, acc) ==
  IF s = <<>> THEN acc
  ELSE parse_u32(Tail(s), acc * 10 + (AsciiCode[Head(s)] - AsciiCode["0"]))

\* HashParts as formatted by bcrypt: "$2b$" cost (two digits) "$" salt digest.
format_hash(cost, salt, digest) ==
  <<"$", "2", "b", "$", DigitChar[(cost \div 10) + 1], DigitChar[(cost % 10) + 1],
    "$", salt, digest>>

\* bcrypt::hash(password, cost) with the salt the random source delivers; the
\* random source may fail, and a cost outside 4..31 is refused.
bcrypt_hash(password, cost, salt, rngOk) ==
  IF ~rngOk THEN Err("BcryptError::Rand", <<>>)
  ELSE IF cost < 4 \/ cost > 31 THEN Err("BcryptError::CostNotAllowed", <<>>)
  ELSE Ok(format_hash(cost, salt, Digest(as_bytes(password), cost, salt)))

\* hash.split('$').filter(|s| !s.is_empty()) of bcrypt's split_hash.
RECURSIVE split_dollar(_, _, _)
split_dollar(s, cur, acc) ==
  IF s = <<>> THEN (IF cur = <<>> THEN acc ELSE Append(acc, cur))
  ELSE IF Head(s) = "$"
  THEN split_dollar(Tail(s), <<>>, IF cur = <<>> THEN acc ELSE Append(acc, cur))
  ELSE split_dollar(Tail(s), Append(cur, Head(s)), acc)

\* bcrypt::verify(password, hash): the SECOND argument is parsed as a hash
\* string (three '$'-separated parts: a version 2a/2b/2x/2y, a decimal cost, a
\* 22-character salt followed by a 31-character digest); the digest of the
\* FIRST argument under that cost and salt is compared with the parsed digest.
\* A second argument that is no hash string is an error, not a mismatch; the
\* error holds the text it refused (InvalidHash holds the whole second
\* argument).
bcrypt_verify(password, hash) ==
  LET raw_parts == split_dollar(hash, <<>>, <<>>)
  IN  IF Len(raw_parts) # 3 THEN ErrText("BcryptError::InvalidHash", FALSE, hash)
      ELSE IF raw_parts[1] \notin {<<"2", "y">>, <<"2", "b">>, <<"2", "a">>, <<"2", "x">>}
      THEN ErrText("BcryptError::InvalidPrefix", FALSE, raw_parts[1])
      ELSE IF ~(\A i \in 1..Len(raw_parts[2]) : IsDigit(raw_parts[2][i]))
      THEN ErrText("BcryptError::InvalidCost", FALSE, raw_parts[2])
      ELSE IF ~(/\ Len(raw_parts[3]) = 2
                /\ raw_parts[3][1] \in SaltBlocks
                /\ IsDigestBlock(raw_parts[3][2]))
      THEN ErrText("BcryptError::InvalidHash", FALSE, hash)
      ELSE LET cost == parse_u32(raw_parts[2], 0)
           IN  IF cost < 4 \/ cost > 31
               THEN ErrText("BcryptError::CostNotAllowed", FALSE, raw_parts[2])
               ELSE Ok(Digest(as_bytes(password), cost, raw_parts[3][1])
                       = raw_parts[3][2])

\* ------------------------------------------------------------------ inputs

\* The plaintext secrets the operator may configure; the empty string is one.
Secrets == {<<>>, <<"a">>}

\* A token string that is no configured secret.
WrongToken == <<"b">>

\* A hash string with a digest of no password: well formed, matches nothing.
ForgedHash == format_hash(DEFAULT_COST, "s1", JunkDigest)

\* The hash string of the stored hash itself, at the cheapest cost.
HashOfStoredHash(cfg) ==
  format_hash(4, "s2", Digest(as_bytes(cfg.hashed_api_token), 4, "s2"))

\* The values a client may send in an x-api-token line: each secret, a token
\* that is no secret, the empty value, a byte that is no visible ASCII, and
\* hash strings.
TokenValues(cfg) ==
  {as_bytes(s) : s \in Secrets} \cup {as_bytes(WrongToken), <<>>, <<"xFF">>, ForgedHash}
  \cup (IF cfg.present THEN {HashOfStoredHash(cfg)} ELSE {})

\* The hash strings AdminConfig::build can store, and the token values a
\* client may present to a configuration holding one of them.
StoredHashes ==
  {bcrypt_hash(s, DEFAULT_COST, salt, TRUE).val : s \in Secrets, salt \in SaltBlocks}

PresentedTokens ==
  UNION {TokenValues([present |-> TRUE, hashed_api_token |-> h]) : h \in StoredHashes}

\* bcrypt::verify on the arguments AdminConfig::verify can pass to it,
\* evaluated once for each pair.
bcrypt_verify_of ==
  [password \in StoredHashes, hash \in PresentedTokens |-> bcrypt_verify(password, hash)]

\* ------------------------------------------------------------- AdminConfig

\* The application context holds no Data<AdminConfig>.
NoConfig == [present |-> FALSE, hashed_api_token |-> <<>>]

\* Variant of AdminConfig_build: a failure of the primitive leaves the hash
\* empty instead of returning the error.
AdminConfig_build_EmptyOnError(secret, salt, rngOk) ==
  LET h == bcrypt_hash(secret, DEFAULT_COST, salt, rngOk)
  IN  Ok([present |-> TRUE, hashed_api_token |-> h.val])

\* AdminConfig::build(api_token): hashes the secret at DEFAULT_COST; a failure
\* of the primitive becomes ErrorKind::BCryptHash and no value is built.
AdminConfig_build(secret, salt, rngOk) ==
  LET h == bcrypt_hash(secret, DEFAULT_COST, salt, rngOk)
  IN  IF h.ok
      THEN Ok([present |-> TRUE, hashed_api_token |-> h.val])
      ELSE MapErr("BCryptHash", NoConfig, h)

\* AdminConfig::verify(&self, token): bcrypt::verify is called with the stored
\* hash as its first argument and the presented token as its second; an error
\* of the primitive becomes ErrorKind::BCryptVerify.
AdminConfig_verify(self, token) ==
  LET v == bcrypt_verify_of[self.hashed_api_token, token]
  IN  IF v.ok THEN Ok(v.val) ELSE MapErr("BCryptVerify", FALSE, v)

\* ---------------------------------------------------------- error taxonomy

ErrorKinds ==
  {"Invalid", "MissingConfig", "MissingDb", "BCryptVerify", "BCryptHash", "ParseHeader"}

\* #[error("...")] of ErrorKind: the Display text of a kind.
ErrorKind_to_string(kind) ==
  CASE kind = "Invalid" -> "Invalid API Token"
    [] kind = "MissingConfig" -> "Missing Config"
    [] kind = "MissingDb" -> "Missing Db"
    [] kind = "BCryptVerify" -> "Verifying"
    [] kind = "BCryptHash" -> "Hashing"
    [] kind = "ParseHeader" -> "Parse Header"

\* Variant of status_code: a bad credential answers 401 Unauthorized.
status_code_Unauthorized(kind) ==
  IF kind = "Invalid" THEN 401 ELSE IF kind = "ParseHeader" THEN 400 ELSE 500

\* impl ResponseError for Error: fn status_code(&self).
status_code(kind) ==
  IF kind = "Invalid" \/ kind = "ParseHeader" THEN 400 ELSE 500

\* The #[source] of an ErrorKind: the wrapped error and the text it holds.
NoSource == [cause |-> "none", text |-> <<>>]

SourceOf(result) == [cause |-> result.cause, text |-> result.text]

\* Variant of error_response: the message is followed by the source's text.
error_response_WithSource(kind, source) ==
  [status |-> status_code(kind),
   msg |-> ErrorKind_to_string(kind) \o ": " \o source.cause \o " " \o Flat(source.text)]

\* impl ResponseError for Error: fn error_response(&self): the status of the
\* kind and the Display text of the kind; the source is not used.
error_response(kind, source) ==
  [status |-> status_code(kind), msg |-> ErrorKind_to_string(kind)]

\* No error response: the guard returned Ok and the handler runs.
NoResponse == [status |-> 0, msg |-> ""]

\* ------------------------------------------------------------------- state

Workers == {"w1", "w2"}

\* The worker threads are alike; they are numbered in the order in which they
\* first accept a request.
WorkerNumber == [w1 |-> 1, w2 |-> 2]

Requests == 1..MaxRequests


VARIABLES
  phase,          \* "boot", "running", or "aborted" (startup failed)
  api_token,      \* the plaintext secret given at startup
  startup_error,  \* the error kind AdminConfig::build returned, or "none"
  app_config,     \* req.app_data::<Data<AdminConfig>>()
  app_db,         \* req.app_data::<Data<Db>>(): "none" or the handle "db"
  reqs,           \* per request: its headers and the position of its guard
  busy,           \* per worker thread: the request whose from_request runs on it
  codec_pc,       \* codec round trip: "idle", "refused", "encoded", "decoded"
  codec_token,    \* the token string given to XApiToken::new
  codec_value,    \* the HeaderValue try_into_value produced
  codec_parsed    \* the result of XApiToken::parse on a message holding it

guard_vars == <<phase, api_token, startup_error, app_config, app_db, reqs, busy>>

codec_vars == <<codec_pc, codec_token, codec_value, codec_parsed>>

vars == <<guard_vars, codec_vars>>

NewRequest ==
  [pc |-> "new", worker |-> "none", headers |-> <<>>, config |-> NoConfig,
   x_api_token |-> <<>>, verify_calls |-> 0, verified |-> "none",
   steps |-> <<>>, result |-> "pending", source |-> NoSource, db |-> "none",
   response |-> NoResponse]

Init ==
  /\ phase = "boot"
  /\ api_token = <<>>
  /\ startup_error = "none"
  /\ app_config = NoConfig
  /\ app_db = "none"
  /\ reqs = [r \in Requests |-> NewRequest]
  /\ busy = [w \in Workers |-> 0]
  /\ codec_pc = "idle"
  /\ codec_token = <<>>
  /\ codec_value = <<>>
  /\ codec_parsed = Err("none", <<>>)

\* The header lines a client may send.
HeaderLines(cfg) ==
  {[name |-> XApiToken_name, value |-> v] : v \in TokenValues(cfg)}

HeaderLists(cfg, most) == UNION {[1..n -> HeaderLines(cfg)] : n \in 0..most}

\* ------------------------------------------------------------ Admin::verify

\* from_request returns: Ok(Admin { db }) or Err(Error { kind }), the kind
\* with its source; for an error the framework builds the response with
\* error_response.
Finish(req, result, db) ==
  [req EXCEPT !.pc = "Done", !.result = result, !.db = db,
              !.response = IF result = "Admin" THEN NoResponse
                           ELSE error_response(result, req.source)]

\* req.app_data::<Data<AdminConfig>>().ok_or_else(Error::missing_config)?
ConfigLookupStep(req, cfg) ==
  LET q == [req EXCEPT !.steps = Append(@, "ConfigLookup")]
  IN  IF ~cfg.present THEN Finish(q, "MissingConfig", "none")
      ELSE [q EXCEPT !.config = cfg, !.pc = "HeaderExtract"]

\* XApiToken::parse(req).map_err(Error::parse_header)?
HeaderExtractStep(req) ==
  LET q == [req EXCEPT !.steps = Append(@, "HeaderExtract")]
      p == XApiToken_parse(req.headers)
  IN  IF ~p.ok THEN Finish([q EXCEPT !.source = [cause |-> p.err, text |-> p.text]],
                           "ParseHeader", "none")
      ELSE [q EXCEPT !.x_api_token = p.val, !.pc = "Verify"]

\* Variant of VerifyStep: any Ok of the comparison, true or false, proceeds to
\* the store lookup.
VerifyStep_IgnoresResult(req) ==
  LET v == AdminConfig_verify(req.config, req.x_api_token)
      q == [req EXCEPT !.steps = Append(@, "Verify"),
                       !.verify_calls = @ + 1,
                       !.verified = IF ~v.ok THEN "error"
                                    ELSE IF v.val THEN "true" ELSE "false"]
  IN  IF ~v.ok THEN Finish([q EXCEPT !.source = SourceOf(v)], v.err, "none")
      ELSE [q EXCEPT !.pc = "StoreLookup"]

\* Variant of VerifyStep: an error of the comparison is retried once.
VerifyStep_RetriesError(req) ==
  LET v == AdminConfig_verify(req.config, req.x_api_token)
      q == [req EXCEPT !.steps = Append(@, "Verify"),
                       !.verify_calls = @ + 1,
                       !.verified = IF ~v.ok THEN "error"
                                    ELSE IF v.val THEN "true" ELSE "false"]
      again == [q EXCEPT !.steps = Append(@, "Verify"), !.verify_calls = @ + 1]
  IN  IF ~v.ok THEN Finish([again EXCEPT !.source = SourceOf(v)], v.err, "none")
      ELSE IF v.val THEN [q EXCEPT !.pc = "StoreLookup"]
      ELSE Finish(q, "Invalid", "none")

\* if hashed_api_token.verify(x_api_token)? { ... } Err(Error::invalid())
VerifyStep(req) ==
  LET v == AdminConfig_verify(req.config, req.x_api_token)
      q == [req EXCEPT !.steps = Append(@, "Verify"),
                       !.verify_calls = @ + 1,
                       !.verified = IF ~v.ok THEN "error"
                                    ELSE IF v.val THEN "true" ELSE "false"]
  IN  IF ~v.ok THEN Finish([q EXCEPT !.source = SourceOf(v)], v.err, "none")
      ELSE IF v.val THEN [q EXCEPT !.pc = "StoreLookup"]
      ELSE Finish(q, "Invalid", "none")

\* req.app_data::<Data<Db>>().ok_or_else(Error::missing_db)?; Ok(Self { db })
StoreLookupStep(req, db) ==
  LET q == [req EXCEPT !.steps = Append(@, "StoreLookup")]
  IN  IF db = "none" THEN Finish(q, "MissingDb", "none")
      ELSE Finish(q, "Admin", db)

\* ----------------------------------------------------------------- actions

RECURSIVE HeadersSent(_)
HeadersSent(n) == IF n = 0 THEN 0 ELSE Len(reqs[n].headers) + HeadersSent(n - 1)

HeadersLeft == MaxHeaders - HeadersSent(MaxRequests)

\* Process startup: the secret is hashed once; a failure aborts the startup.
\* Whether the configuration and the store handle are registered in the
\* application context is the embedding application's choice.
Startup(secret, salt, rngOk, regConfig, regDb) ==
  /\ phase = "boot"
  /\ api_token' = secret
  /\ LET built == AdminConfig_build(secret, salt, rngOk)
     IN  IF built.ok
         THEN /\ phase' = "running"
              /\ startup_error' = "none"
              /\ app_config' = IF regConfig THEN built.val ELSE NoConfig
              /\ app_db' = IF regDb THEN "db" ELSE "none"
         ELSE /\ phase' = "aborted"
              /\ startup_error' = built.err
              /\ UNCHANGED <<app_config, app_db>>
  /\ UNCHANGED <<reqs, busy>>
  /\ UNCHANGED codec_vars

\* A request is accepted by a worker; requests are numbered in the order of
\* their arrival.  Its header lines are the client's choice.
Arrive(r) ==
  /\ phase = "running"
  /\ reqs[r].pc = "new"
  /\ \A q \in 1..(r - 1) : reqs[q].pc # "new"
  /\ \E w \in Workers, headers \in HeaderLists(app_config, HeadersLeft) :
       /\ \A v \in Workers :
            WorkerNumber[v] < WorkerNumber[w]
              => \E q \in 1..(r - 1) : reqs[q].worker = v
       /\ reqs' = [reqs EXCEPT ![r] = [@ EXCEPT !.pc = "queued", !.worker = w,
                                                   !.headers = headers]]
  /\ UNCHANGED <<phase, api_token, startup_error, app_config, app_db, busy>>
  /\ UNCHANGED codec_vars

\* Variant of Advance: building the capability moves the store handle out of
\* the application context instead of cloning it.
Advance_MovesDb(r, next) ==
  /\ reqs' = [reqs EXCEPT ![r] = next]
  /\ busy' = [busy EXCEPT ![reqs[r].worker] = IF next.pc = "Done" THEN 0 ELSE r]
  /\ app_db' = IF next.result = "Admin" THEN "none" ELSE app_db
  /\ UNCHANGED <<phase, api_token, startup_error, app_config>>
  /\ UNCHANGED codec_vars

\* One step of Admin::verify for request r on its worker thread, leaving the
\* request as next; the thread is released when the call returns.
Advance(r, next) ==
  /\ reqs' = [reqs EXCEPT ![r] = next]
  /\ busy' = [busy EXCEPT ![reqs[r].worker] = IF next.pc = "Done" THEN 0 ELSE r]
  /\ UNCHANGED <<phase, api_token, startup_error, app_config, app_db>>
  /\ UNCHANGED codec_vars

\* Variant of Admin_verify_enter: the header is extracted before the
\* configuration is looked up.
Admin_verify_enter_HeaderFirst(req, cfg) ==
  LET q == HeaderExtractStep(req)
  IN  IF q.pc = "Done" THEN q
      ELSE LET c == ConfigLookupStep(q, cfg)
           IN  IF c.pc = "Done" THEN c ELSE [c EXCEPT !.pc = "Verify"]

\* Admin::verify from its entry to the call of AdminConfig::verify: the
\* configuration lookup, then the header extraction.
Admin_verify_enter(req, cfg) ==
  LET q == ConfigLookupStep(req, cfg)
  IN  IF q.pc = "Done" THEN q ELSE HeaderExtractStep(q)

\* Admin::verify from the call of AdminConfig::verify to its return: the
\* comparison, then, only if it returned true, the store lookup.
Admin_verify_leave(req, db) ==
  LET q == VerifyStep(req)
  IN  IF q.pc = "Done" THEN q ELSE StoreLookupStep(q, db)

\* An idle worker thread calls Admin::from_request(req): ready(Admin::verify(req))
\* evaluates Admin::verify on the calling thread, which runs nothing else
\* until the call returns.  The request is at "Verify" while the thread is
\* inside the hash comparison.
FromRequest(r) ==
  /\ reqs[r].pc = "queued"
  /\ busy[reqs[r].worker] = 0
  /\ Advance(r, Admin_verify_enter(reqs[r], app_config))

\* The hash comparison returns and Admin::verify runs to its return.
Verify(r) ==
  /\ reqs[r].pc = "Verify"
  /\ Advance(r, Admin_verify_leave(reqs[r], app_db))

Next ==
  \/ \E secret \in Secrets, salt \in SaltBlocks, rngOk, regConfig, regDb \in BOOLEAN :
       Startup(secret, salt, rngOk, regConfig, regDb)
  \/ \E r \in Requests : Arrive(r)
  \/ \E r \in Requests : FromRequest(r)
  \/ \E r \in Requests : Verify(r)

Spec == Init /\ [][Next]_vars

\* ready(Admin::verify(req)) runs on the worker thread to its return: a worker
\* that can start or finish an evaluation does so.
SpecFair ==
  /\ Init /\ [][Next]_vars
  /\ \A r \in Requests : WF_vars(FromRequest(r)) /\ WF_vars(Verify(r))

\* ----------------------------------------------------- codec round trip

\* The characters a token string is drawn from: letters, '$', space, tab, the
\* control characters line feed and DEL, and the non-ASCII e_acute.
TokenChars == {"a", "b", "$", " ", "HT", "LF", "DEL", "e_acute"}

TokenStrings == UNION {[1..n -> TokenChars] : n \in 0..MaxLen}

\* XApiToken::new(token).try_into_value(): the value, or InvalidHeaderValue.
Encode(token) ==
  /\ codec_pc = "idle"
  /\ codec_token' = token
  /\ LET v == XApiToken_try_into_value(token)
     IN  /\ codec_pc' = IF v.ok THEN "encoded" ELSE "refused"
         /\ codec_value' = v.val
  /\ UNCHANGED codec_parsed
  /\ UNCHANGED guard_vars

\* XApiToken::parse on a message whose only x-api-token line holds the value.
Decode ==
  /\ codec_pc = "encoded"
  /\ codec_pc' = "decoded"
  /\ codec_parsed' = XApiToken_parse(<<[name |-> XApiToken_name, value |-> codec_value]>>)
  /\ UNCHANGED <<codec_token, codec_value>>
  /\ UNCHANGED guard_vars

NextCodec ==
  \/ \E token \in TokenStrings : Encode(token)
  \/ Decode

SpecCodec == Init /\ [][NextCodec]_vars

\* ------------------------------------------------------------------ claims

Done(r) == reqs[r].pc = "Done"

TokenLine(bytes) == [name |-> XApiToken_name, value |-> bytes]

IsTokenLine(h) == h.name = XApiToken_name

TokenLines(r) == SelectSeq(reqs[r].headers, IsTokenLine)

\* The request carries the configured secret in its only x-api-token line.
CarriesSecret(r) == reqs[r].headers = <<TokenLine(as_bytes(api_token))>>

\* C1: a request that carries the configured secret as its single token and
\* is verified, with the configuration present, is verified true and, with the
\* store present, is granted the capability.
C1_SecretIsGranted ==
  \A r \in Requests :
    (Done(r) /\ app_config.present /\ CarriesSecret(r) /\ reqs[r].verify_calls > 0)
      => /\ reqs[r].verified = "true"
         /\ (app_db # "none" => reqs[r].result = "Admin")

\* C2: a decoded token that differs from the configured secret is verified
\* false, not an error, and the request is rejected as Invalid with 400.
C2_MismatchIsInvalid ==
  \A r \in Requests :
    (Done(r) /\ reqs[r].verify_calls > 0 /\ reqs[r].x_api_token # api_token)
      => /\ reqs[r].verified = "false"
         /\ reqs[r].result = "Invalid"
         /\ reqs[r].response.status = 400

\* C3: a request with two or more x-api-token lines is rejected as ParseHeader
\* with 400, and none of its values is verified.
C3_DuplicateIsParseHeader ==
  \A r \in Requests :
    (Done(r) /\ app_config.present /\ Len(TokenLines(r)) >= 2)
      => /\ reqs[r].result = "ParseHeader"
         /\ reqs[r].response.status = 400
         /\ reqs[r].verify_calls = 0

\* C4: a request whose outcome is the capability had the configuration
\* present, a decoded token, exactly one comparison of that token with the
\* stored hash that returned true, and the store handle present.
C4_CapabilityOnlyWhenVerified ==
  \A r \in Requests :
    reqs[r].result = "Admin"
      => /\ app_config.present
         /\ reqs[r].config = app_config
         /\ XApiToken_parse(reqs[r].headers) = Ok(reqs[r].x_api_token)
         /\ reqs[r].verify_calls = 1
         /\ reqs[r].verified = "true"
         /\ AdminConfig_verify(app_config, reqs[r].x_api_token) = Ok(TRUE)
         /\ app_db # "none"
         /\ reqs[r].db = app_db

C4_Witness ==
  \E r \in Requests : Done(r) /\ reqs[r].result = "Admin" /\ reqs[r].db = "db"

\* C5: with no AdminConfig in the application context every evaluated request
\* ends in MissingConfig with 500, whatever its headers and whether or not the
\* store handle is present, and nothing is verified.
C5_MissingConfigFirst ==
  \A r \in Requests :
    (Done(r) /\ ~app_config.present)
      => /\ reqs[r].result = "MissingConfig"
         /\ reqs[r].response.status = 500
         /\ reqs[r].verify_calls = 0

C5_Witness ==
  /\ ~app_config.present
  /\ app_db = "db"
  /\ \E r1, r2 \in Requests :
       /\ Done(r1) /\ CarriesSecret(r1) /\ reqs[r1].result = "MissingConfig"
       /\ Done(r2) /\ reqs[r2].headers = <<TokenLine(<<"xFF">>)>>
       /\ reqs[r2].result = "MissingConfig"

\* C6: with the configuration present, a request with no x-api-token line, or
\* whose single line holds a byte that is no visible ASCII, is rejected as
\* ParseHeader with 400 and the comparison is never invoked for it.
C6_AbsentOrMalformedIsParseHeader ==
  \A r \in Requests :
    (/\ Done(r)
     /\ app_config.present
     /\ \/ Len(TokenLines(r)) = 0
        \/ /\ Len(TokenLines(r)) = 1
           /\ \E i \in 1..Len(TokenLines(r)[1].value) :
                ~is_visible_ascii(TokenLines(r)[1].value[i]))
      => /\ reqs[r].result = "ParseHeader"
         /\ reqs[r].response.status = 400
         /\ reqs[r].verify_calls = 0
         /\ reqs[r].verified = "none"

C6_Witness ==
  /\ app_config.present
  /\ \E r1, r2 \in Requests :
       /\ Done(r1) /\ reqs[r1].headers = <<>> /\ reqs[r1].result = "ParseHeader"
       /\ Done(r2) /\ reqs[r2].headers = <<TokenLine(<<"xFF">>)>>
       /\ reqs[r2].result = "ParseHeader"

\* C7: with the configuration present and no store handle, a request that
\* carries the configured secret as its single token, in a line that decodes,
\* ends in MissingDb with 500.
C7_CorrectTokenMissingStore ==
  \A r \in Requests :
    (/\ Done(r) /\ app_config.present /\ app_db = "none" /\ CarriesSecret(r)
     /\ XApiToken_parse(reqs[r].headers).ok)
      => /\ reqs[r].result = "MissingDb"
         /\ reqs[r].response.status = 500

\* C8: every error the guard returns is one of Invalid, ParseHeader,
\* MissingConfig, MissingDb, BCryptVerify, answered with 400 for the first two
\* and 500 for the other three.
C8_StatusMapping ==
  \A r \in Requests :
    (Done(r) /\ reqs[r].result # "Admin")
      => /\ reqs[r].result \in
              {"Invalid", "ParseHeader", "MissingConfig", "MissingDb", "BCryptVerify"}
         /\ reqs[r].result = "Invalid" => reqs[r].response.status = 400
         /\ reqs[r].result = "ParseHeader" => reqs[r].response.status = 400
         /\ reqs[r].result = "MissingConfig" => reqs[r].response.status = 500
         /\ reqs[r].result = "MissingDb" => reqs[r].response.status = 500
         /\ reqs[r].result = "BCryptVerify" => reqs[r].response.status = 500

C8_Witness ==
  \E r1, r2 \in Requests :
    /\ Done(r1) /\ reqs[r1].result = "Invalid" /\ reqs[r1].response.status = 400
    /\ Done(r2) /\ reqs[r2].result = "MissingDb" /\ reqs[r2].response.status = 500

\* C9 as stated: every token string the encoder accepts decodes, from a
\* message holding the encoded value as its only line, to the same string.
C9_RoundTripAll ==
  codec_pc = "decoded" => codec_parsed = Ok(codec_token)

IsAsciiChar(c) == c \in DOMAIN AsciiCode /\ AsciiCode[c] < 128

\* C9 as amended: a token string the encoder accepts decodes to the same
\* string exactly when it is non-empty and all of its characters are ASCII;
\* the empty string and strings with a non-ASCII character are refused by the
\* decoder with ParseError::Header.
C9_RoundTripNonEmptyAscii ==
  codec_pc = "decoded"
    => IF codec_token # <<>> /\ \A i \in 1..Len(codec_token) : IsAsciiChar(codec_token[i])
       THEN codec_parsed = Ok(codec_token)
       ELSE codec_parsed = Err("ParseError::Header", <<>>)

C9_Witness ==
  /\ codec_pc = "decoded"
  /\ codec_token = <<" ", "a">>
  /\ codec_value = <<" ", "a">>
  /\ codec_parsed = Ok(<<" ", "a">>)

\* C10: while one request is inside the hash comparison, a request queued on
\* the same worker can start its own guard evaluation.
C10_VerifyLeavesWorkerFree ==
  \A r1, r2 \in Requests :
    (/\ r1 # r2
     /\ reqs[r1].pc = "Verify"
     /\ reqs[r2].pc = "queued"
     /\ reqs[r2].worker = reqs[r1].worker)
      => ENABLED FromRequest(r2)

Rejected(r) == Done(r) /\ reqs[r].result # "Admin"

\* C11: the response of a rejected request, status and message, is determined
\* by the error kind alone: two rejected requests with the same kind have the
\* same response whatever tokens they presented, and the message is one of
\* the fixed texts of the kinds, so it holds neither the presented token nor
\* the secret.
C11_ResponseByKindAlone ==
  /\ \A r1, r2 \in Requests :
       (Rejected(r1) /\ Rejected(r2) /\ reqs[r1].result = reqs[r2].result)
         => reqs[r1].response = reqs[r2].response
  /\ \A r \in Requests :
       Rejected(r)
         => /\ reqs[r].response.msg \in
                 {"Invalid API Token", "Missing Config", "Missing Db",
                  "Verifying", "Hashing", "Parse Header"}
            /\ reqs[r].response.status \in {400, 500}

C11_Witness ==
  \E r1, r2 \in Requests :
    /\ Rejected(r1) /\ Rejected(r2)
    /\ reqs[r1].result = "BCryptVerify" /\ reqs[r2].result = "BCryptVerify"
    /\ reqs[r1].x_api_token = <<"a">> /\ reqs[r2].x_api_token = <<"b">>
    /\ reqs[r1].source = [cause |-> "BcryptError::InvalidHash", text |-> <<"a">>]
    /\ reqs[r2].source = [cause |-> "BcryptError::InvalidHash", text |-> <<"b">>]
    /\ reqs[r1].response = reqs[r2].response

GuardSteps == <<"ConfigLookup", "HeaderExtract", "Verify", "StoreLookup">>

\* The steps a request has performed are an initial part of GuardSteps, each
\* step is performed only after the one before it succeeded, and the outcome
\* is that of the last step performed.
StepOrder(r) ==
  LET steps == reqs[r].steps
      n == Len(steps)
  IN  /\ n <= Len(GuardSteps)
      /\ steps = SubSeq(GuardSteps, 1, n)
      /\ n >= 2 => reqs[r].config.present
      /\ n >= 3 => XApiToken_parse(reqs[r].headers).ok
      /\ n >= 4 => reqs[r].verified = "true"
      /\ Done(r) =>
           /\ n >= 1
           /\ n = 1 => reqs[r].result = "MissingConfig"
           /\ n = 2 => reqs[r].result = "ParseHeader"
           /\ n = 3 => reqs[r].result \in {"Invalid", "BCryptVerify"}
           /\ n = 4 => reqs[r].result \in {"MissingDb", "Admin"}

C12_StepOrder == \A r \in Requests : StepOrder(r)

\* C12: the guard performs its steps in the order ConfigLookup, HeaderExtract,
\* Verify, StoreLookup and returns the error of the first step that fails,
\* performing no later step; with no store handle, a request whose decoded
\* token is not the secret ends in Invalid and a request whose header does not
\* decode ends in ParseHeader.
C12_FirstFailingStep ==
  \A r \in Requests :
    /\ StepOrder(r)
    /\ (/\ Done(r) /\ app_config.present /\ app_db = "none"
        /\ XApiToken_parse(reqs[r].headers).ok
        /\ XApiToken_parse(reqs[r].headers).val # as_bytes(api_token))
         => reqs[r].result = "Invalid"
    /\ (/\ Done(r) /\ app_config.present /\ app_db = "none"
        /\ ~XApiToken_parse(reqs[r].headers).ok)
         => reqs[r].result = "ParseHeader"

\* Admin::verify evaluated alone, from entry to return, on a request with the
\* given header lines in the given application context.
GuardOutcome(headers, cfg, db) ==
  LET entered == Admin_verify_enter([NewRequest EXCEPT !.headers = headers], cfg)
  IN  IF entered.pc = "Done" THEN entered ELSE Admin_verify_leave(entered, db)

\* C13: no step of any guard evaluation, in any interleaving of the requests,
\* changes the AdminConfig or the store handle of the application context, and
\* the outcome of every request is the one the guard gives for its own header
\* lines in that context, whatever the other requests are.
C13_ContextUnchanged ==
  /\ [][phase = "running" => /\ app_config' = app_config
                             /\ app_db' = app_db
                             /\ api_token' = api_token]_vars
  /\ [](\A r \in Requests :
         Done(r) =>
           LET alone == GuardOutcome(reqs[r].headers, app_config, app_db)
           IN  /\ reqs[r].result = alone.result
               /\ reqs[r].response = alone.response
               /\ reqs[r].db = alone.db)

\* Two requests in flight at once on different workers: the later one has
\* been granted the capability while the earlier one is inside the comparison.
C13_Witness ==
  /\ reqs[1].pc = "Verify"
  /\ reqs[1].worker # reqs[2].worker
  /\ Done(2) /\ reqs[2].result = "Admin"
  /\ app_config.present /\ app_db = "db"

PcRank == [new |-> 0, queued |-> 1, Verify |-> 2, Done |-> 3]

Entered(r) == reqs[r].pc \in {"queued", "Verify"}

\* C14: every request that has entered the guard reaches a terminal outcome,
\* which is the capability or one of the five guard errors and is never
\* changed afterwards; the comparison is invoked at most once for a request,
\* no step is performed twice and a request never goes back to an earlier
\* position.
C14_OneTerminalOutcome ==
  /\ \A r \in Requests : Entered(r) ~> Done(r)
  /\ [](\A r \in Requests :
         /\ reqs[r].verify_calls <= 1
         /\ \A i, j \in 1..Len(reqs[r].steps) :
              reqs[r].steps[i] = reqs[r].steps[j] => i = j
         /\ Done(r) <=> reqs[r].result # "pending"
         /\ Done(r) => reqs[r].result \in
                         {"Admin", "Invalid", "ParseHeader", "MissingConfig",
                          "MissingDb", "BCryptVerify"})
  /\ [][\A r \in Requests :
         /\ Done(r) => reqs'[r] = reqs[r]
         /\ reqs'[r] # reqs[r] => PcRank[reqs'[r].pc] > PcRank[reqs[r].pc]]_vars

\* Both requests were queued on one worker and both have returned, one after
\* a comparison that failed and one after a comparison that returned false.
C14_Witness ==
  /\ Done(1) /\ Done(2)
  /\ reqs[1].worker = reqs[2].worker
  /\ reqs[1].verify_calls = 1 /\ reqs[1].result = "BCryptVerify"
  /\ reqs[2].verify_calls = 1 /\ reqs[2].result = "Invalid"

\* C15: no guard evaluation returns BCryptHash; that kind arises only from
\* AdminConfig::build at startup, and then no AdminConfig exists and no request
\* is evaluated.  An AdminConfig that exists holds a complete hash of the
\* secret, and every comparison is made against it.
C15_HashFailureOnlyAtStartup ==
  /\ \A r \in Requests :
       /\ reqs[r].result # "BCryptHash"
       /\ reqs[r].config.present
            => /\ reqs[r].config = app_config
               /\ reqs[r].config.hashed_api_token \in StoredHashes
  /\ startup_error \in {"none", "BCryptHash"}
  /\ startup_error = "BCryptHash" <=> phase = "aborted"
  /\ phase = "aborted"
       => /\ app_config = NoConfig
          /\ \A r \in Requests : reqs[r] = NewRequest
  /\ app_config.present
       => /\ phase = "running"
          /\ bcrypt_verify(api_token, app_config.hashed_api_token) = Ok(TRUE)

C15_Witness ==
  /\ phase = "aborted"
  /\ startup_error = "BCryptHash"
  /\ ~app_config.present

\* C16: with the configuration present, a request whose single x-api-token
\* line has an empty value is rejected as ParseHeader with 400 and is never
\* verified, also when the configured secret is the empty string; no request
\* is granted the capability for an empty token.
C16_EmptyTokenIsParseHeader ==
  \A r \in Requests :
    /\ (Done(r) /\ app_config.present /\ reqs[r].headers = <<TokenLine(<<>>)>>)
         => /\ reqs[r].result = "ParseHeader"
            /\ reqs[r].response.status = 400
            /\ reqs[r].verify_calls = 0
    /\ reqs[r].result = "Admin"
         => /\ reqs[r].x_api_token # <<>>
            /\ TokenLines(r)[1].value # <<>>

C16_Witness ==
  /\ api_token = <<>>
  /\ app_config.present
  /\ app_db = "db"
  /\ \E r \in Requests :
       /\ Done(r) /\ CarriesSecret(r)
       /\ reqs[r].headers = <<TokenLine(<<>>)>>
       /\ reqs[r].result = "ParseHeader"

====
